---- MODULE Spec2Model ----
(***************************************************************************)
(* emtail driver (emtail.go): program loading, the one-shot reader, the    *)
(* lines channel shared with the engine goroutine, the metrics snapshot    *)
(* taken by main, and streaming mode with the in-memory console.  The      *)
(* engine, the compiler, the tailer and the metric store live outside      *)
(* emtail.go and are modelled from their documented contract.              *)
(***************************************************************************)
EXTENDS Integers, Sequences, FiniteSets, TLC

\* ---------------------------------------------------------------- bounds
MaxProgEntries == 2     \* entries in the -progs directory
MaxFiles == 2           \* pathnames in -logs
MaxLogBytes == 4        \* bytes in all log files of one run together

\* ------------------------------------------------------------- alphabet
NL == "\n"
IOERR == "ioerr"        \* the position at which the underlying read fails
NoFile == <<"nofile">>  \* os.Open fails for this pathname
Bytes == {"a", NL}

\* Log file contents: byte strings; a read failure ends the stream.
Contents ==
  UNION { { d \in [1..n -> Bytes \cup {IOERR}] :
              \A i \in 1..n : d[i] = IOERR => i = n } : n \in 0..MaxLogBytes }

\* ------------------------------------------------------ program directory
\* One entry of ioutil.ReadDir(*progs): fi.IsDir(), filepath.Ext(fi.Name()),
\* whether os.Open succeeds, and what the source text compiles to.
DirEntries ==
  { [isDir |-> TRUE,  ext |-> ".em",  openOk |-> TRUE,  src |-> "counter"],
    [isDir |-> FALSE, ext |-> ".txt", openOk |-> TRUE,  src |-> "counter"],
    [isDir |-> FALSE, ext |-> ".em",  openOk |-> FALSE, src |-> "counter"],
    [isDir |-> FALSE, ext |-> ".em",  openOk |-> TRUE,  src |-> "bad"],
    [isDir |-> FALSE, ext |-> ".em",  openOk |-> TRUE,  src |-> "counter"],
    [isDir |-> FALSE, ext |-> ".em",  openOk |-> TRUE,  src |-> "faulty"] }

Listings == UNION { [1..n -> DirEntries] : n \in 0..MaxProgEntries }

VARIABLES
  fis,          \* the entries of the listing, in ReadDir order, that
                \* main's loading loop has not visited yet
  fi,           \* the loop variable fi: <<entry>> inside the loop body,
                \* <<>> outside the loop
  vms,          \* e.vms: the programs registered with the engine, in order;
                \* a program is known by its position (its name is its
                \* file's name, which no other entry shares)
  errors,       \* main's errors variable (0 or 1)
  exitAfterLoad,\* *compile_only || *dump_bytecode
  oneShot,      \* *one_shot
  pathnames,    \* number of non-empty pathnames in -logs
  mpc,          \* position of the main goroutine
  cur,          \* index of the pathname OneShot is reading
  data,         \* contents of the file OneShot has open
  pos,          \* bytes of it consumed by the bufio.Reader
  chanbuf,      \* lines buffered in the channel
  epc,          \* position of the engine goroutine
  eline,        \* the line the engine is processing
  evm,          \* index in vms of the next program to run on eline
  metrics,      \* the metric store: the counter of the i-th program of vms
  b,            \* the marshalled snapshot (empty before json.MarshalIndent)
  emitted,      \* b has been written to stdout
  status,       \* process exit status, -1 while running
  opened,       \* history: contents of the files opened so far
  failed,       \* history: a call of OneShot returned an error
  sent,         \* history: <<file index, line>> sent on the channel
  recvd,        \* history: <<file index, line>> received by the engine
  runs,         \* history: number of lines the i-th program was run on
  faults,       \* history: runtime errors logged by the engine
  tailers,      \* number of files the tailer follows (t.Tail calls made)
  console,      \* log.SetOutput(c) has been called
  clines,       \* c.lines of the console
  spc,          \* position of the goroutine serving a request for "/"
  page          \* the lines console.ServeHTTP ranges over for that request

vars == <<fis, fi, vms, errors, exitAfterLoad, oneShot, pathnames, mpc, cur,
          data, pos, chanbuf, epc, eline, evm, metrics, b, emitted, status,
          opened, failed, sent, recvd, runs, faults, tailers, console, clines,
          spc, page>>

mainVars == <<fis, fi, vms, errors, exitAfterLoad, oneShot, pathnames, mpc,
              cur, data, pos, b, emitted, status, opened, failed, tailers,
              console>>
loadVars == <<fis, fi, vms, errors>>
readerVars == <<cur, data, pos, opened, failed>>
engineVars == <<epc, eline, evm, runs, faults>>
chanVars == <<chanbuf, sent, recvd>>
outVars == <<b, emitted>>
flagVars == <<exitAfterLoad, oneShot, pathnames>>
consoleVars == <<tailers, console, clines, spc, page>>

Init ==
  /\ fis \in Listings
  /\ fi = <<>>
  /\ vms = <<>>
  /\ errors = 0
  /\ exitAfterLoad \in BOOLEAN
  /\ oneShot \in BOOLEAN
  /\ pathnames \in 0..MaxFiles
  /\ mpc = "load"
  /\ cur = 0
  /\ data = <<>>
  /\ pos = 0
  /\ chanbuf = <<>>
  /\ epc = "idle"
  /\ eline = <<>>
  /\ evm = 0
  /\ metrics = <<>>
  /\ b = <<>>
  /\ emitted = FALSE
  /\ status = -1
  /\ opened = <<>>
  /\ failed = FALSE
  /\ sent = <<>>
  /\ recvd = <<>>
  /\ runs = <<>>
  /\ faults = 0
  /\ tailers = 0
  /\ console = FALSE
  /\ clines = <<>>
  /\ spc = "idle"
  /\ page = <<>>

\* ------------------------------------------------------------- loading
\* Compile(name, f): a program or a list of errors.
CompileErrs(entry) == entry.src = "bad"

\* Whether the loop body reaches Compile for this entry.
Compiled(entry) == ~entry.isDir /\ entry.ext = ".em" /\ entry.openOk

\* The loop body without the continue after a failed compilation.
LoadEntryKeepsBad(entry, v, errs) ==
  IF entry.isDir THEN <<v, errs>>
  ELSE IF entry.ext # ".em" THEN <<v, errs>>
  ELSE IF ~entry.openOk THEN <<v, errs>>
  ELSE <<Append(v, [kind |-> entry.src]),
         IF entry.src = "bad" THEN 1 ELSE errs>>

\* The loop body without the test of the extension.
LoadEntryAnyExt(entry, v, errs) ==
  IF entry.isDir THEN <<v, errs>>
  ELSE IF ~entry.openOk THEN <<v, errs>>
  ELSE IF entry.src = "bad" THEN <<v, 1>>
  ELSE <<Append(v, [kind |-> entry.src]), errs>>

\* The loop body with an addVm that puts the program first.
LoadEntryPrepends(entry, v, errs) ==
  IF entry.isDir THEN <<v, errs>>
  ELSE IF entry.ext # ".em" THEN <<v, errs>>
  ELSE IF ~entry.openOk THEN <<v, errs>>
  ELSE IF entry.src = "bad" THEN <<v, 1>>
  ELSE <<(<<[kind |-> entry.src]>>) \o v, errs>>

\* The loop body with errors = 1 also where the program cannot be opened.
LoadEntryCountsOpenFailure(entry, v, errs) ==
  IF entry.isDir THEN <<v, errs>>
  ELSE IF entry.ext # ".em" THEN <<v, errs>>
  ELSE IF ~entry.openOk THEN <<v, 1>>
  ELSE IF entry.src = "bad" THEN <<v, 1>>
  ELSE <<Append(v, [kind |-> entry.src]), errs>>

\* One iteration of main's loop over fis: the new <<e.vms, errors>>.
LoadEntry(entry, v, errs) ==
  IF entry.isDir THEN <<v, errs>>
  ELSE IF entry.ext # ".em" THEN <<v, errs>>
  ELSE IF ~entry.openOk THEN <<v, errs>>
  ELSE IF CompileErrs(entry) THEN <<v, 1>>
  ELSE <<Append(v, [kind |-> entry.src]), errs>>

\* Compile declares the program's metric in the store, at zero.
Declare(entry, store) ==
  IF Compiled(entry) /\ ~CompileErrs(entry) THEN Append(store, 0)
  ELSE store

Load ==
  /\ mpc = "load"
  /\ fis # <<>>
  /\ LET r == LoadEntry(Head(fis), vms, errors)
     IN /\ vms' = r[1]
        /\ errors' = r[2]
  /\ metrics' = Declare(Head(fis), metrics)
  /\ runs' = Declare(Head(fis), runs)
  /\ fis' = Tail(fis)
  /\ fi' = <<Head(fis)>>
  /\ UNCHANGED <<flagVars, mpc, readerVars, chanVars, epc, eline, evm,
                 faults, outVars, status, consoleVars>>

\* e.run(lines) never started.
EngineNotStarted == "idle"

\* go e.run(lines): the engine goroutine exists and heads for its receive.
EngineStarted == "recv"

\* go e.run(lines) moved in front of the loading loop.
StartBeforeLoading ==
  /\ mpc = "load"
  /\ IF fis # <<>>
       THEN /\ epc = "idle"
            /\ ~exitAfterLoad
            /\ pathnames > 0
            /\ epc' = EngineStarted
            /\ UNCHANGED <<mpc, status, cur, fi>>
     ELSE /\ IF exitAfterLoad
               THEN mpc' = "exit" /\ status' = errors /\ UNCHANGED <<epc, cur>>
             ELSE IF pathnames = 0
               THEN mpc' = "exit" /\ status' = 1 /\ UNCHANGED <<epc, cur>>
             ELSE /\ mpc' = IF oneShot THEN "open" ELSE "tail"
                  /\ cur' = IF oneShot THEN 1 ELSE cur
                  /\ epc' = EngineStarted
                  /\ UNCHANGED status
          /\ fi' = <<>>
  /\ UNCHANGED <<fis, vms, errors, flagVars, data, pos, opened, failed,
                 chanVars, eline, evm, runs, faults, metrics, outVars,
                 consoleVars>>

\* After the loop: os.Exit(errors) in compile-only/dump mode, log.Fatal
\* without pathnames, else make the channel and start the engine goroutine;
\* then the one-shot branch or the streaming branch.
Start ==
  /\ mpc = "load"
  /\ fis = <<>>
  /\ IF exitAfterLoad
       THEN mpc' = "exit" /\ status' = errors /\ UNCHANGED <<epc, cur>>
     ELSE IF pathnames = 0
       THEN mpc' = "exit" /\ status' = 1 /\ UNCHANGED <<epc, cur>>
     ELSE /\ mpc' = IF oneShot THEN "open" ELSE "tail"
          /\ cur' = IF oneShot THEN 1 ELSE cur
          /\ epc' = EngineStarted
          /\ UNCHANGED status
  /\ fi' = <<>>
  /\ UNCHANGED <<fis, vms, errors, flagVars, data, pos, opened, failed,
                 chanVars, eline, evm, runs, faults, metrics, outVars,
                 consoleVars>>

\* ------------------------------------------------------------ one-shot
\* Position of the first NL or IOERR at or after index i, Len(d)+1 if none.
RECURSIVE ScanDelim(_, _)
ScanDelim(d, i) ==
  IF i > Len(d) THEN i
  ELSE IF d[i] \in {NL, IOERR} THEN i
  ELSE ScanDelim(d, i + 1)

\* A reader that hands out its whole buffer instead of the part after the
\* bytes already consumed.
ReadStringKeepsBuffer(d, p) ==
  LET j == ScanDelim(d, p + 1) IN
  IF j > Len(d)
    THEN [line |-> SubSeq(d, 1, Len(d)), pos |-> Len(d), err |-> "EOF"]
  ELSE IF d[j] = NL
    THEN [line |-> SubSeq(d, 1, j), pos |-> j, err |-> "nil"]
  ELSE [line |-> SubSeq(d, 1, j - 1), pos |-> j - 1, err |-> "err"]

\* r.ReadString('\n') with p bytes already consumed: the bytes up to and
\* including the delimiter; at end of input or on a read failure the bytes
\* read so far, with the error.
ReadString(d, p) ==
  LET j == ScanDelim(d, p + 1) IN
  IF j > Len(d)
    THEN [line |-> SubSeq(d, p + 1, Len(d)), pos |-> Len(d), err |-> "EOF"]
  ELSE IF d[j] = NL
    THEN [line |-> SubSeq(d, p + 1, j), pos |-> j, err |-> "nil"]
  ELSE [line |-> SubSeq(d, p + 1, j - 1), pos |-> j - 1, err |-> "err"]

\* The switch with a return in place of the send.
OneShotCaseReturnsEarly(err) ==
  IF err = "EOF" THEN "return nil"
  ELSE IF err # "nil" THEN "return err"
  ELSE "return nil"

\* The switch in OneShot's loop: what the loop does with ReadString's result.
OneShotCase(err) ==
  IF err = "EOF" THEN "return nil"
  ELSE IF err # "nil" THEN "return err"
  ELSE "send"

\* log.Printf in place of log.Fatalf.
AfterOneShotLogs(err) == "continue"

\* main's handling of OneShot's result: log.Fatalf on an error.
AfterOneShot(err) == IF err THEN "fatal" ELSE "continue"

\* A channel with room for every line of the run: a queue that never makes
\* a producer wait.
ChanCapUnbounded == MaxLogBytes

\* lines := make(chan string, 1)
ChanCapBuffered == 1

\* lines := make(chan string)
ChanCap == 0

RECURSIVE SumLen(_)
SumLen(fs) == IF fs = <<>> THEN 0 ELSE Len(Head(fs)) + SumLen(Tail(fs))

\* The effect on main of OneShot returning to the loop in main.
Returned(err) ==
  /\ failed' = (failed \/ err)
  /\ IF AfterOneShot(err) = "fatal"
       THEN mpc' = "exit" /\ status' = 1 /\ UNCHANGED cur
     ELSE IF cur < pathnames
       THEN mpc' = "open" /\ cur' = cur + 1 /\ UNCHANGED status
     ELSE mpc' = "marshal" /\ UNCHANGED <<cur, status>>

\* os.Open(logfile) and bufio.NewReader
Open ==
  /\ mpc = "open"
  /\ \E f \in Contents \cup {NoFile} :
       /\ f # NoFile => Len(f) + SumLen(opened) <= MaxLogBytes
       /\ IF f = NoFile
            THEN Returned(TRUE) /\ UNCHANGED <<data, pos, opened>>
          ELSE /\ data' = f
               /\ pos' = 0
               /\ opened' = Append(opened, f)
               /\ mpc' = "loop"
               /\ UNCHANGED <<cur, status, failed>>
  /\ UNCHANGED <<loadVars, flagVars, chanVars, engineVars, metrics, outVars,
                 consoleVars>>

\* lines <- line.  The send completes by handing the line to a receiver that
\* is waiting, or by buffering it while the channel has room.
Send(f, l) ==
  /\ IF epc = "recv" /\ chanbuf = <<>>
       THEN /\ eline' = l
            /\ evm' = 1
            /\ epc' = "exec"
            /\ recvd' = Append(recvd, <<f, l>>)
            /\ UNCHANGED chanbuf
     ELSE /\ Len(chanbuf) < ChanCap
          /\ chanbuf' = Append(chanbuf, <<f, l>>)
          /\ UNCHANGED <<eline, evm, epc, recvd>>
  /\ sent' = Append(sent, <<f, l>>)

\* One iteration of OneShot's for loop: r.ReadString('\n') and the switch on
\* its error; the iteration that sends ends when the send completes.
OneShotLoop ==
  /\ mpc = "loop"
  /\ LET r == ReadString(data, pos)
         c == OneShotCase(r.err)
     IN /\ pos' = r.pos
        /\ IF c = "send"
             THEN /\ Send(cur, r.line)
                  /\ UNCHANGED <<mpc, cur, status, failed>>
           ELSE /\ Returned(c = "return err")
                /\ UNCHANGED <<chanVars, epc, eline, evm>>
  /\ UNCHANGED <<loadVars, flagVars, data, opened, runs, faults, metrics,
                 outVars, consoleVars>>

\* b, err := json.MarshalIndent(metrics, "", "  ")
Marshal ==
  /\ mpc = "marshal"
  /\ b' = metrics
  /\ mpc' = "write"
  /\ UNCHANGED <<loadVars, flagVars, readerVars, chanVars, engineVars,
                 metrics, emitted, status, consoleVars>>

\* os.Stdout.Write(b); WriteMetrics(); main returns.
WriteOut ==
  /\ mpc = "write"
  /\ emitted' = TRUE
  /\ mpc' = "exit"
  /\ status' = 0
  /\ UNCHANGED <<loadVars, flagVars, readerVars, chanVars, engineVars,
                 metrics, b, consoleVars>>

\* -------------------------------------------------------------- engine
Matches(l) == \E i \in 1..Len(l) : l[i] = "a"

\* vm execute(program, line): a "counter" program adds one to its counter on
\* a matching line; a "faulty" program fails its capture conversion on a
\* matching line, a runtime error that leaves the store alone.
ExecFails(prog, l) == prog.kind = "faulty" /\ Matches(l)

\* A vm that sets the counter to whether the line matched.
ExecuteSets(i, prog, l, store) ==
  IF prog.kind = "counter"
    THEN [store EXCEPT ![i] = IF Matches(l) THEN 1 ELSE 0]
  ELSE store

Execute(i, prog, l, store) ==
  IF prog.kind = "counter" /\ Matches(l)
    THEN [store EXCEPT ![i] = @ + 1]
  ELSE store

\* An error ends the processing of the line.
NextVmAbort(i, erred) == IF erred THEN Len(vms) + 1 ELSE i + 1

\* The program the engine runs after program i on the same line, whether or
\* not program i raised an error.
NextVm(i, erred) == i + 1

\* engine run loop: one registered program executes against the line.  A
\* runtime error is logged: on stderr at once, or, once the console is the
\* logger's output, by a call of console.Write on this goroutine.
EngineExec ==
  /\ status = -1
  /\ epc = "exec"
  /\ evm <= Len(vms)
  /\ LET prog == vms[evm]
         erred == ExecFails(prog, eline)
     IN /\ metrics' = Execute(evm, prog, eline, metrics)
        /\ runs' = [runs EXCEPT ![evm] = @ + 1]
        /\ faults' = IF erred THEN faults + 1 ELSE faults
        /\ evm' = NextVm(evm, erred)
        /\ epc' = IF erred /\ console THEN "log" ELSE epc
  /\ UNCHANGED <<mainVars, chanVars, eline, clines, spc, page>>

\* The message the engine is logging: the line and the program that failed.
Logging == <<Len(recvd), evm - 1>>

\* console.Write(p): the bytes of p, rune by rune, become one more element
\* of c.lines (log messages are valid UTF-8, which the loop leaves as it is).
Write(lines, p) == Append(lines, p)

\* The call of console.Write made by the logger on the engine goroutine
\* returns: c.lines has the message.
ConsoleWrite ==
  /\ status = -1
  /\ epc = "log"
  /\ clines' = Write(clines, Logging)
  /\ epc' = "exec"
  /\ UNCHANGED <<mainVars, chanVars, eline, evm, runs, faults, metrics, spc,
                 page>>

\* engine run loop: the line is done, back to the receive.
EngineNextLine ==
  /\ status = -1
  /\ epc = "exec"
  /\ evm > Len(vms)
  /\ IF chanbuf # <<>>
       THEN /\ eline' = Head(chanbuf)[2]
            /\ evm' = 1
            /\ recvd' = Append(recvd, Head(chanbuf))
            /\ chanbuf' = Tail(chanbuf)
            /\ UNCHANGED epc
     ELSE epc' = "recv" /\ UNCHANGED <<eline, evm, recvd, chanbuf>>
  /\ UNCHANGED <<mainVars, sent, runs, faults, metrics, clines, spc, page>>

\* ----------------------------------------------------------- streaming
\* StartEmtail: NewTailer(lines), log.Fatal if there is none, and t.Tail for
\* every pathname.
StartEmtail ==
  /\ mpc = "tail"
  /\ \E ok \in BOOLEAN :
       IF ok
         THEN mpc' = "console" /\ tailers' = pathnames /\ UNCHANGED status
       ELSE mpc' = "exit" /\ status' = 1 /\ UNCHANGED tailers
  /\ UNCHANGED <<loadVars, flagVars, readerVars, chanVars, engineVars, metrics,
                 outVars, console, clines, spc, page>>

\* c := &console{}; log.SetOutput(c); the handlers; StartMetricPush();
\* http.ListenAndServe, which serves until it fails, and log.Fatal of its
\* error, written to the console before the exit.
Listen ==
  /\ mpc = "console"
  /\ console' = TRUE
  /\ \E ok \in BOOLEAN :
       IF ok
         THEN mpc' = "serve" /\ UNCHANGED <<status, clines>>
       ELSE /\ mpc' = "exit"
            /\ status' = 1
            /\ clines' = Write(clines, <<0, 0>>)
  /\ UNCHANGED <<loadVars, flagVars, readerVars, chanVars, engineVars, metrics,
                 outVars, tailers, spc, page>>

\* The lines a tailed file can grow by: text without a newline.
TailLines == UNION { [1..n -> Bytes \ {NL}] : n \in 0..(MaxLogBytes - 1) }

RECURSIVE TailedBytes(_)
TailedBytes(h) ==
  IF h = <<>> THEN 0 ELSE Len(Head(h)[2]) + 1 + TailedBytes(Tail(h))

\* A tailed file has grown by a line and its producer hands the line to the
\* engine (tailed lines carry file index 0 in the histories).
TailSend ==
  /\ status = -1
  /\ tailers > 0
  /\ \E l \in TailLines :
       /\ TailedBytes(sent) + Len(l) + 1 <= MaxLogBytes
       /\ Send(0, l)
  /\ UNCHANGED <<mainVars, runs, faults, metrics, clines, spc, page>>

\* console.ServeHTTP reaches `for _, l := range c.lines`: the loop ranges
\* over c.lines as this goroutine reads it, which, with a console.Write in
\* progress on another goroutine and nothing ordering the two, is the slice
\* before or after that append.
ServeBegin ==
  /\ status = -1
  /\ mpc = "serve"
  /\ spc = "idle"
  /\ page' \in IF epc = "log" THEN {clines, Write(clines, Logging)}
               ELSE {clines}
  /\ spc' = "iter"
  /\ UNCHANGED <<mainVars, chanVars, engineVars, metrics, clines>>

\* console.ServeHTTP has written the lines and "</pre>" and returns.
ServeEnd ==
  /\ status = -1
  /\ spc = "iter"
  /\ spc' = "idle"
  /\ UNCHANGED <<mainVars, chanVars, engineVars, metrics, clines, page>>

Next ==
  \/ Load
  \/ Start
  \/ Open
  \/ OneShotLoop
  \/ Marshal
  \/ WriteOut
  \/ EngineExec
  \/ EngineNextLine
  \/ ConsoleWrite
  \/ StartEmtail
  \/ Listen
  \/ TailSend
  \/ ServeBegin
  \/ ServeEnd

Spec == Init /\ [][Next]_vars

\* The Go scheduler runs every runnable goroutine eventually: main and the
\* engine each take a step they can take.
MainStep ==
  \/ Load
  \/ Start
  \/ Open
  \/ OneShotLoop
  \/ Marshal
  \/ WriteOut
  \/ StartEmtail
  \/ Listen
EngineStep == EngineExec \/ EngineNextLine \/ ConsoleWrite

LiveSpec == Spec /\ WF_vars(MainStep) /\ WF_vars(EngineStep)

\* ------------------------------------------------- vocabulary of the claims
\* The lines of a file as a reader of the file sees them: the text between
\* newlines, and a non-empty rest after the last newline.
RECURSIVE FileLinesFrom(_, _)
FileLinesFrom(d, acc) ==
  IF d = <<>> THEN (IF acc = <<>> THEN <<>> ELSE <<acc>>)
  ELSE IF Head(d) = NL THEN <<acc>> \o FileLinesFrom(Tail(d), <<>>)
  ELSE FileLinesFrom(Tail(d), Append(acc, Head(d)))

FileLines(d) == FileLinesFrom(SelectSeq(d, LAMBDA c : c # IOERR), <<>>)

Readable(d) == \A i \in 1..Len(d) : d[i] # IOERR
Terminated(d) == Readable(d) /\ (d = <<>> \/ d[Len(d)] = NL)

StripNL(l) ==
  IF l # <<>> /\ l[Len(l)] = NL THEN SubSeq(l, 1, Len(l) - 1) ELSE l

\* The lines of file f in a history of <<file, line>> pairs.
LinesOf(h, f) ==
  LET sel == SelectSeq(h, LAMBDA m : m[1] = f)
  IN [i \in 1..Len(sel) |-> sel[i][2]]

IsPrefix(s, t) == Len(s) <= Len(t) /\ \A i \in 1..Len(s) : s[i] = t[i]

CountMatching(ls) == Cardinality({i \in 1..Len(ls) : Matches(ls[i])})

RECURSIVE AllLines(_)
AllLines(fs) ==
  IF fs = <<>> THEN <<>> ELSE FileLines(Head(fs)) \o AllLines(Tail(fs))

OneShotRun == ~exitAfterLoad /\ pathnames > 0 /\ oneShot

\* OneShot has returned nil for the f-th pathname.
ReadToEOF(f) ==
  /\ f \in 1..Len(opened)
  /\ f < cur \/ mpc \in {"marshal", "write"} \/ emitted

\* ---------------------------------------------------------------- claims
\* C1: when the snapshot is emitted, every line of every (newline-terminated)
\* file has been run by every registered program, and every counter program's
\* value in the snapshot is the number of matching lines.
C1_SnapshotAfterAllLines ==
  (emitted /\ \A f \in 1..Len(opened) : Terminated(opened[f])) =>
    \A i \in 1..Len(vms) :
      /\ runs[i] = Len(AllLines(opened))
      /\ vms[i].kind = "counter" =>
           b[i] = CountMatching(AllLines(opened))

\* C2: a snapshot never sees a torn line: it equals the effect of all
\* registered programs on some whole number k of the lines received.
Snapshotted == mpc = "write" \/ emitted

C2_NoTornSnapshot ==
  Snapshotted =>
    \E k \in 0..Len(recvd) :
      \A i \in 1..Len(vms) :
        b[i] =
          IF vms[i].kind = "counter"
            THEN CountMatching([j \in 1..k |-> recvd[j][2]])
          ELSE 0

\* C3: one file of three newline-terminated lines of which only the second
\* matches, one counter program: the emitted snapshot shows exactly 1.
ThreeLinesSecondMatches(d) ==
  /\ Terminated(d)
  /\ Len(FileLines(d)) = 3
  /\ ~Matches(FileLines(d)[1])
  /\ Matches(FileLines(d)[2])
  /\ ~Matches(FileLines(d)[3])

C3_Case ==
  /\ emitted
  /\ Len(opened) = 1
  /\ ThreeLinesSecondMatches(opened[1])
  /\ Len(vms) = 1
  /\ vms[1].kind = "counter"

C3_ThreeLineFileCountsOne == C3_Case => b[1] = 1

C3_Witness == C3_Case /\ Len(recvd) = 3

\* C4: for every file the engine receives that file's lines in file order,
\* none duplicated, none reordered: what it has received of a file is,
\* newline aside, an initial part of the file's lines.
C4_PerFileLineOrder ==
  \A f \in 1..Len(opened) :
    LET got == LinesOf(recvd, f)
    IN IsPrefix([i \in 1..Len(got) |-> StripNL(got[i])], FileLines(opened[f]))

C4_Witness ==
  /\ Len(opened) = 2
  /\ Len(LinesOf(recvd, 1)) >= 2
  /\ LinesOf(recvd, 1)[1] # LinesOf(recvd, 1)[2]
  /\ Len(LinesOf(recvd, 2)) >= 1

\* C5: once OneShot has returned nil for a file, it has sent as many lines
\* as the file has, an unterminated last line included.
C5_AllLinesSent ==
  \A f \in 1..Len(opened) :
    ReadToEOF(f) => Len(LinesOf(sent, f)) = Len(FileLines(opened[f]))

\* C6: no line sent on the channel contains a newline.
C6_NoNewlineSent ==
  \A i \in 1..Len(sent) :
    \A j \in 1..Len(sent[i][2]) : sent[i][2][j] # NL

\* C7: every step of the loading loop registers the entry it visits if and
\* only if that entry is a regular .em file that opens and compiles without
\* errors, whatever the entries before it did, and leaves the programs
\* registered so far alone; no other step changes the registered programs.
Loadable(entry) ==
  ~entry.isDir /\ entry.ext = ".em" /\ entry.openOk /\ entry.src # "bad"

C7_LoadAllOrNothing ==
  [][ IF fis' # fis
        THEN IF Loadable(Head(fis))
               THEN /\ Len(vms') = Len(vms) + 1
                    /\ SubSeq(vms', 1, Len(vms)) = vms
                    /\ vms'[Len(vms')].kind = Head(fis).src
             ELSE vms' = vms
      ELSE vms' = vms ]_vars

C7_Witness ==
  /\ mpc # "load"
  /\ errors = 1
  /\ Len(vms) = 1

C9_Done ==
  /\ mpc = "exit"
  /\ (OneShotRun /\ ~failed) =>
       /\ emitted
       /\ status = 0
       /\ Len(opened) = pathnames
       /\ recvd = sent
       /\ chanbuf = <<>>

Streaming == ~exitAfterLoad /\ pathnames > 0 /\ ~oneShot

RunsDue(i) ==
  IF epc \in {"exec", "log"} /\ i >= evm THEN Len(recvd) - 1 ELSE Len(recvd)

C10_ErrorsIsolated ==
  \A i \in 1..Len(vms) :
    /\ runs[i] = RunsDue(i)
    /\ vms[i].kind = "counter" =>
         metrics[i] =
           CountMatching([j \in 1..RunsDue(i) |-> recvd[j][2]])

C10_Witness ==
  /\ faults >= 1
  /\ Len(vms) = 2
  /\ vms[1].kind = "faulty"
  /\ vms[2].kind = "counter"
  /\ metrics[2] >= 1
  /\ Len(recvd) >= 2
  /\ epc = "recv"

ReaderLines(d) ==
  IF Terminated(d) THEN FileLines(d)
  ELSE SubSeq(FileLines(d), 1, Len(FileLines(d)) - 1)

RECURSIVE Programs(_)
Programs(listing) ==
  IF listing = <<>> THEN <<>>
  ELSE IF Loadable(Head(listing))
    THEN <<[kind |-> Head(listing).src]>> \o Programs(Tail(listing))
  ELSE Programs(Tail(listing))

C15_RegisteredInListingOrder ==
  [][ vms' \o Programs(fis') = vms \o Programs(fis) ]_vars

C15_Witness ==
  /\ mpc # "load"
  /\ Len(vms) = 2
  /\ vms[1].kind # vms[2].kind

\* C16: in compile-only or dump-bytecode mode the process exits after the
\* whole listing was visited, with the engine not started and no log file
\* opened, and its status is 1 exactly if some program file produced
\* compile errors: the status the listing calls for is the same at every
\* step up to the exit.
HasCompileErrors(listing) ==
  \E i \in 1..Len(listing) :
    /\ ~listing[i].isDir
    /\ listing[i].ext = ".em"
    /\ listing[i].openOk
    /\ listing[i].src = "bad"

StatusDue ==
  IF mpc = "exit" THEN status
  ELSE IF errors = 1 \/ HasCompileErrors(fis) THEN 1
  ELSE 0

C17_OnlyEmFiles ==
  [][ (fis' # fis /\ (Head(fis).isDir \/ Head(fis).ext # ".em")) =>
        /\ vms' = vms
        /\ errors' = errors
        /\ metrics' = metrics ]_vars

C17_Witness ==
  /\ mpc = "load"
  /\ fi # <<>>
  /\ Len(vms) = 1
  /\ errors = 0
  /\ \/ fi[1].isDir
     \/ fi[1].ext # ".em"

\* C12: the set of programs is fixed before any line is processed: every
\* registration happens while the engine's run loop has not been started,
\* and once a line has been handed over, in one-shot or in streaming mode,
\* the loading loop is over and no program is added or removed.
C12_ProgramsFixedBeforeLines ==
  /\ [][ (epc # "idle" \/ epc' # "idle" \/ sent # <<>>) => vms' = vms ]_vars
  /\ []( sent # <<>> => mpc # "load" /\ fis = <<>> )

C12_Witness ==
  /\ Streaming
  /\ Len(vms) = 2
  /\ Len(recvd) >= 2
  /\ epc = "exec"

\* C13: the lines channel is a rendezvous: no line is ever sent and not yet
\* received, and a send completes only as the step in which the engine,
\* waiting at its receive, takes the line; while the engine executes a
\* line no producer hands over another.
C13_Rendezvous ==
  /\ []( chanbuf = <<>> /\ sent = recvd )
  /\ [][ sent' # sent =>
           /\ epc = "recv"
           /\ epc' = "exec"
           /\ recvd' = sent'
           /\ eline' = sent'[Len(sent')][2] ]_vars

\* The one-shot reader has its next line to send while the engine is still
\* executing the one before.
C13_Witness ==
  /\ mpc = "loop"
  /\ epc = "exec"
  /\ Len(sent) >= 1
  /\ OneShotCase(ReadString(data, pos).err) = "send"

\* C18: in streaming mode the console is free of data races, console.Write
\* never appending to c.lines while console.ServeHTTP ranges over it, and a
\* page holds the messages logged so far, each once and in order.
C18_ConsoleRaceFree ==
  /\ ~(spc = "iter" /\ epc = "log")
  /\ spc = "iter" => IsPrefix(page, clines)
====
